---- MODULE Spec2Model ----
(***************************************************************************)
(* CartPole RL: the cart-pole physics environment (CartPoleEnv), the       *)
(* REINFORCE policy-gradient agent (PolicyGradientAgent) and the App       *)
(* driving loop that couples them.                                         *)
(*                                                                         *)
(* Numbers.  A JavaScript number is modelled as a fixed-point integer in   *)
(* units of 1/Scale (1.0 is Scale, 0.02 is 20), with one extra value NaN.  *)
(* Products and quotients truncate toward zero.  Math.sin, Math.cos,       *)
(* Math.tanh, Math.exp and Math.sqrt are computed by fixed-point           *)
(* approximations of the same functions.                                   *)
(*                                                                         *)
(* Specifications.  SpecEnv is a caller of CartPoleEnv, SpecAgent and      *)
(* SpecView are callers of PolicyGradientAgent, and Spec is the App: its   *)
(* animation-frame callback and its click handlers, each taken as one      *)
(* step.  The App is explored along the Math.random() draws given by       *)
(* LoopActions and ResetDraw, with the frame times described at Frame, and *)
(* for MaxEpisodes episodes per agent.                                     *)
(***************************************************************************)
EXTENDS Integers, Sequences, FiniteSets, TLC

VARIABLES
    env,        \* CartPoleEnv.state: [x, xDot, theta, thetaDot]
    lastStep,   \* SpecEnv: what the last env.step(action) call returned, and its argument
    agent,      \* PolicyGradientAgent: configuration fields and episode memory
    params,     \* the agent's weight arrays w1, b1, w2, b2 (the array objects)
    pred,       \* SpecAgent: what the last agent.predict(state) call returned
    held,       \* SpecAgent: the result of agent.getWeights() the caller holds
    app,        \* App: React state and refs of the driving loop
    trace,      \* App: the calls on the environment and the agent made by the last
                \* handler that used them (of a frame callback: by its last loop pass)
    lastOp,     \* SpecEnv, SpecAgent: the last call the caller made
    fuel        \* SpecEnv, SpecAgent: how many of the bounded calls were made

vars == <<env, lastStep, agent, params, pred, held, app, trace, lastOp, fuel>>

----------------------------------------------------------------------------
(* Fixed-point arithmetic with NaN *)

Scale == 1000

NaN == -999999999

\* the number 1.0
One == Scale

\* integer division truncating toward zero, b > 0
TruncDiv(a, b) == IF a >= 0 THEN a \div b ELSE -((-a) \div b)

FAdd(a, b) == IF a = NaN \/ b = NaN THEN NaN ELSE a + b

FSub(a, b) == IF a = NaN \/ b = NaN THEN NaN ELSE a - b

FMul(a, b) == IF a = NaN \/ b = NaN THEN NaN ELSE TruncDiv(a * b, Scale)

\* a / b; the only division by zero the program performs is 0 / 0, which is NaN
FDiv(a, b) ==
    IF a = NaN \/ b = NaN \/ b = 0 THEN NaN
    ELSE IF b > 0 THEN TruncDiv(a * Scale, b)
    ELSE -TruncDiv(a * Scale, -b)

RECURSIVE SqrtSearch(_, _, _)
\* the largest k in lo..hi with k * k <= n
SqrtSearch(n, lo, hi) ==
    IF lo >= hi THEN lo
    ELSE LET mid == (lo + hi + 1) \div 2
         IN  IF mid * mid <= n THEN SqrtSearch(n, mid, hi)
             ELSE SqrtSearch(n, lo, mid - 1)

\* Math.sqrt: NaN for NaN and for negative arguments
FSqrt(a) ==
    IF a = NaN \/ a < 0 THEN NaN ELSE SqrtSearch(a * Scale, 0, 46000)

\* Math.sin and Math.cos, by their Taylor polynomials (|theta| stays below 1)
Sin(t) == t - TruncDiv(t * t * t, 6 * Scale * Scale)

Cos(t) == Scale - TruncDiv(t * t, 2 * Scale)

\* Math.tanh, by the Pade approximant x(27 + x^2)/(27 + 9x^2), saturating
Tanh(x) ==
    IF x = NaN THEN NaN
    ELSE IF x >= 3 * Scale THEN Scale
    ELSE IF x <= -3 * Scale THEN -Scale
    ELSE LET q == TruncDiv(x * x, Scale)
         IN  TruncDiv(x * (27 * Scale + q), 27 * Scale + 9 * q)

\* Math.exp for an argument d <= 0, by (1 + d/16)^16; exp(0) is exactly 1
ExpNeg(d) ==
    IF d = NaN THEN NaN
    ELSE IF d <= -16 * Scale THEN 0
    ELSE LET e1 == Scale + TruncDiv(d, 16)
             e2 == TruncDiv(e1 * e1, Scale)
             e4 == TruncDiv(e2 * e2, Scale)
             e8 == TruncDiv(e4 * e4, Scale)
         IN  TruncDiv(e8 * e8, Scale)

RECURSIVE Accum(_, _, _)
\* let sum = b; for (k = 1..n) sum += f[k]
Accum(b, f, n) == IF n = 0 THEN b ELSE FAdd(Accum(b, f, n - 1), f[n])

\* Array.prototype.reduce((a, b) => a + b, 0)
SumSeq(s) == Accum(0, s, Len(s))

Max(a, b) == IF a >= b THEN a ELSE b

----------------------------------------------------------------------------
(* CartPoleEnv *)

gravity == 9800

massPole == 100

totalMass == 1100

length == 500

poleMassLength == 50

forceMag == 10000

tau == 20

\* CARTPOLE_THRESHOLDS.x = 2.4
ThresholdX == 2400

\* CARTPOLE_THRESHOLDS.theta = 12 * (Math.PI / 180) = 0.2094395...; on integer
\* multiples of 1/Scale, "theta > 0.2094395" is "theta > 209"
ThresholdTheta == 209

State4(a, b, c, d) == [x |-> a, xDot |-> b, theta |-> c, thetaDot |-> d]

\* reset(): each component is Math.random() * 0.05 - 0.025, in [-0.025, 0.025);
\* the draws explored
ResetStates ==
    { State4(-25, -25, -25, -25), State4(24, 24, -25, -25) }

\* const force = action === 1 ? this.forceMag : -this.forceMag
Force(action) == IF action = 1 THEN forceMag ELSE -forceMag

\* the Euler step of CartPoleEnv.step: the new this.state
NextState(s, action) ==
    LET force    == Force(action)
        costheta == Cos(s.theta)
        sintheta == Sin(s.theta)
        temp     == FDiv(FAdd(force,
                              FMul(FMul(FMul(poleMassLength, s.thetaDot), s.thetaDot),
                                   sintheta)),
                         totalMass)
        thetaAcc == FDiv(FSub(FMul(gravity, sintheta), FMul(costheta, temp)),
                         FMul(length,
                              FSub(FDiv(4 * Scale, 3 * Scale),
                                   FDiv(FMul(FMul(massPole, costheta), costheta),
                                        totalMass))))
        xAcc     == FSub(temp, FDiv(FMul(FMul(poleMassLength, thetaAcc), costheta),
                                    totalMass))
    IN  State4(FAdd(s.x, FMul(tau, s.xDot)),
               FAdd(s.xDot, FMul(tau, xAcc)),
               FAdd(s.theta, FMul(tau, s.thetaDot)),
               FAdd(s.thetaDot, FMul(tau, thetaAcc)))

\* a done flag that also ends the episode on the bounds themselves
DoneOnBound(n) ==
    \/ n.x <= -ThresholdX
    \/ n.x >= ThresholdX
    \/ n.theta <= -ThresholdTheta
    \/ n.theta >= ThresholdTheta

\* the done flag of CartPoleEnv.step, from the post-step state
Done(n) ==
    \/ n.x < -ThresholdX
    \/ n.x > ThresholdX
    \/ n.theta < -ThresholdTheta
    \/ n.theta > ThresholdTheta

\* a step that pays no reward for the step that ends the episode
StepResultNoTerminalReward(s, action) ==
    LET n == NextState(s, action)
    IN  [called |-> TRUE, action |-> action, from |-> s, threw |-> FALSE,
         nextState |-> n, reward |-> IF Done(n) THEN 0 ELSE One, done |-> Done(n)]

\* CartPoleEnv.step(action): the returned object; "from" is the state it read
\* and "threw" whether the call raised an error (the code has no throw)
StepResult(s, action) ==
    LET n == NextState(s, action)
    IN  [called |-> TRUE, action |-> action, from |-> s, threw |-> FALSE,
         nextState |-> n, reward |-> One, done |-> Done(n)]

NoStep ==
    [called |-> FALSE, action |-> 0, from |-> State4(0, 0, 0, 0), threw |-> FALSE,
     nextState |-> State4(0, 0, 0, 0), reward |-> 0, done |-> FALSE]

----------------------------------------------------------------------------
(* PolicyGradientAgent *)

inputSize == 4

outputSize == 2

\* new PolicyGradientAgent(): hiddenSize 16, learningRate 0.01, gamma 0.99
DefaultConfig == [hiddenSize |-> 16, learningRate |-> 10, gamma |-> 990]

\* the seeds the Gaussian draws of randomMatrix are explored with
Seeds == {0}

\* gaussianRandom(0, 0.1): the draw for entry (i, j) under a seed, in -0.1 .. 0.1
GaussianDraw(seed, i, j) == (((i * 7 + j * 3 + seed * 2) % 5) - 2) * 50

\* randomMatrix(rows, cols); Array.from({length: n}) is empty for n <= 0
randomMatrix(rows, cols, seed) ==
    [i \in 1..rows |-> [j \in 1..cols |-> GaussianDraw(seed, i, j)]]

\* zeroVector(length) = new Array(length).fill(0)
zeroVector(len) == [i \in 1..len |-> 0]

\* new Array(length) throws a RangeError for a negative length
ArrayThrows(len) == len < 0

\* a constructor that sizes the arrays by the default width, not the configured
ConstructDefaultWidth(config, seed) ==
    [threw |-> FALSE,
     agent |-> [hiddenSize |-> config.hiddenSize,
                learningRate |-> config.learningRate,
                gamma |-> config.gamma,
                episodeStates |-> <<>>, episodeHiddens |-> <<>>,
                episodeProbs |-> <<>>, episodeActions |-> <<>>,
                episodeRewards |-> <<>>],
     params |-> [w1 |-> randomMatrix(inputSize, 16, seed),
                 b1 |-> zeroVector(16),
                 w2 |-> randomMatrix(16, outputSize, seed + 1),
                 b2 |-> zeroVector(outputSize)]]

\* constructor(config): the new agent and its arrays, or the error it throws
Construct(config, seed) ==
    IF ArrayThrows(config.hiddenSize)
    THEN [threw |-> TRUE, agent |-> <<>>, params |-> <<>>]
    ELSE [threw |-> FALSE,
          agent |-> [hiddenSize |-> config.hiddenSize,
                     learningRate |-> config.learningRate,
                     gamma |-> config.gamma,
                     episodeStates |-> <<>>, episodeHiddens |-> <<>>,
                     episodeProbs |-> <<>>, episodeActions |-> <<>>,
                     episodeRewards |-> <<>>],
          params |-> [w1 |-> randomMatrix(inputSize, config.hiddenSize, seed),
                      b1 |-> zeroVector(config.hiddenSize),
                      w2 |-> randomMatrix(config.hiddenSize, outputSize, seed + 1),
                      b2 |-> zeroVector(outputSize)]]

\* a resetMemory that leaves the rewards in place
resetMemoryKeepingRewards(ag) ==
    [ag EXCEPT !.episodeStates = <<>>, !.episodeHiddens = <<>>,
               !.episodeProbs = <<>>, !.episodeActions = <<>>]

\* resetMemory()
resetMemory(ag) ==
    [ag EXCEPT !.episodeStates = <<>>, !.episodeHiddens = <<>>,
               !.episodeProbs = <<>>, !.episodeActions = <<>>,
               !.episodeRewards = <<>>]

\* an array literal: the function f on 1..n as a sequence of n evaluated elements
Arr(f, n) == SubSeq(f, 1, n)

\* Math.max(a, b)
FMax(a, b) == IF a = NaN \/ b = NaN THEN NaN ELSE Max(a, b)

\* softmax(logits), for the two logits of the output layer
softmax(logits) ==
    LET maxLogit == FMax(logits[1], logits[2])
        exps     == Arr([o \in 1..outputSize |->
                           ExpNeg(FSub(logits[o], maxLogit))], outputSize)
        sumExps  == Accum(0, exps, outputSize)
    IN  Arr([o \in 1..outputSize |-> FDiv(exps[o], sumExps)], outputSize)

\* the forward pass of predict(state): the activations
Forward(ag, W, s) ==
    LET x      == <<s.x, s.xDot, s.theta, s.thetaDot>>
        hidden == Arr([h \in 1..Len(W.b1) |->
                         Tanh(Accum(W.b1[h],
                                    [i \in 1..inputSize |-> FMul(x[i], W.w1[i][h])],
                                    inputSize))], Len(W.b1))
        logits == Arr([o \in 1..Len(W.b2) |->
                         Accum(W.b2[o],
                               [h \in 1..ag.hiddenSize |->
                                  FMul(hidden[h], W.w2[h][o])],
                               ag.hiddenSize)], Len(W.b2))
    IN  [input |-> x, hidden |-> hidden, output |-> softmax(logits)]

\* Math.random() < probs[0] ? 0 : 1, over every value of Math.random() in [0, 1)
SampledActions(probs) ==
    IF probs[1] = NaN THEN {1}
    ELSE {a \in {0, 1} : IF a = 0 THEN probs[1] > 0 ELSE probs[1] < One}

\* a storeStep that forgets the hidden activations
storeStepWithoutHiddens(ag, activations, action, reward) ==
    [ag EXCEPT !.episodeStates  = Append(@, activations.input),
               !.episodeProbs   = Append(@, activations.output),
               !.episodeActions = Append(@, action),
               !.episodeRewards = Append(@, reward)]

\* storeStep(activations, action, reward)
storeStep(ag, activations, action, reward) ==
    [ag EXCEPT !.episodeStates  = Append(@, activations.input),
               !.episodeHiddens = Append(@, activations.hidden),
               !.episodeProbs   = Append(@, activations.output),
               !.episodeActions = Append(@, action),
               !.episodeRewards = Append(@, reward)]

RECURSIVE RunningAddForward(_, _, _)
\* a running sum accumulated from the first step on, not from the last
RunningAddForward(rewards, gamma, t) ==
    IF t < 1 THEN 0
    ELSE FAdd(FMul(RunningAddForward(rewards, gamma, t - 1), gamma), rewards[t])

RECURSIVE RunningAdd(_, _, _)
\* runningAdd after the backward loop has handled index t (t = N .. 1)
RunningAdd(rewards, gamma, t) ==
    IF t > Len(rewards) THEN 0
    ELSE FAdd(FMul(RunningAdd(rewards, gamma, t + 1), gamma), rewards[t])

\* the discounted returns of train()
Returns(rewards, gamma) ==
    Arr([t \in 1..Len(rewards) |-> RunningAdd(rewards, gamma, t)], Len(rewards))

\* const mean = returns.reduce((a, b) => a + b, 0) / N
Mean(returns) == FDiv(SumSeq(returns), Len(returns) * Scale)

\* a standard deviation without the "|| 1"
StdUnguarded(returns) ==
    LET mean == Mean(returns)
        sq   == Arr([t \in 1..Len(returns) |->
                       FMul(FSub(returns[t], mean), FSub(returns[t], mean))],
                    Len(returns))
    IN  FSqrt(FDiv(SumSeq(sq), Len(returns) * Scale))

\* Math.sqrt(returns.reduce((a, b) => a + Math.pow(b - mean, 2), 0) / N) || 1
Std(returns) ==
    LET mean == Mean(returns)
        sq   == Arr([t \in 1..Len(returns) |->
                       FMul(FSub(returns[t], mean), FSub(returns[t], mean))],
                    Len(returns))
        root == FSqrt(FDiv(SumSeq(sq), Len(returns) * Scale))
    IN  IF root = NaN \/ root = 0 THEN One ELSE root

\* const normReturns = returns.map(r => (r - mean) / std)
NormReturns(returns) ==
    LET mean == Mean(returns)
        std  == Std(returns)
    IN  Arr([t \in 1..Len(returns) |-> FDiv(FSub(returns[t], mean), std)],
            Len(returns))

\* dLogits[o] = prob[o] - (action === o ? 1 : 0)
DLogits(prob, action) ==
    Arr([o \in 1..outputSize |-> FSub(prob[o], IF action = o - 1 THEN One ELSE 0)],
        outputSize)

\* the gradients train() accumulates over the buffered steps
Gradients(ag, W) ==
    LET N    == Len(ag.episodeRewards)
        H    == ag.hiddenSize
        adv  == NormReturns(Returns(ag.episodeRewards, ag.gamma))
        dLog == Arr([t \in 1..N |->
                       DLogits(ag.episodeProbs[t], ag.episodeActions[t])], N)
        gradTerm == Arr([t \in 1..N |->
                           Arr([o \in 1..outputSize |-> FMul(dLog[t][o], adv[t])],
                               outputSize)], N)
        dHidden  == Arr([t \in 1..N |-> Arr([h \in 1..H |->
                       FMul(Accum(0, [o \in 1..outputSize |->
                                        FMul(FMul(dLog[t][o], adv[t]), W.w2[h][o])],
                                  outputSize),
                            FSub(One, FMul(ag.episodeHiddens[t][h],
                                           ag.episodeHiddens[t][h])))], H)], N)
    IN  [dW2 |-> [h \in 1..Len(W.w2) |-> [o \in 1..Len(W.w2[h]) |->
                    SumSeq(Arr([t \in 1..N |->
                                  FMul(ag.episodeHiddens[t][h], gradTerm[t][o])], N))]],
         db2 |-> [o \in 1..Len(W.b2) |->
                    SumSeq(Arr([t \in 1..N |-> gradTerm[t][o]], N))],
         dW1 |-> [i \in 1..Len(W.w1) |-> [h \in 1..Len(W.w1[i]) |->
                    SumSeq(Arr([t \in 1..N |->
                                  FMul(ag.episodeStates[t][i], dHidden[t][h])], N))]],
         db1 |-> [h \in 1..Len(W.b1) |->
                    SumSeq(Arr([t \in 1..N |-> dHidden[t][h]], N))]]

\* an update with the sign slipped: param += this.learningRate * gradient
Ascend(w, learningRate, grad) == FAdd(w, FMul(learningRate, grad))

\* param -= this.learningRate * gradient
Descend(w, learningRate, grad) == FSub(w, FMul(learningRate, grad))

\* "Apply gradients" of train(): the arrays after the update
ApplyGradients(ag, W, g) ==
    [w1 |-> [i \in 1..Len(W.w1) |-> [j \in 1..Len(W.w1[i]) |->
               IF i <= inputSize /\ j <= ag.hiddenSize
               THEN Descend(W.w1[i][j], ag.learningRate, g.dW1[i][j])
               ELSE W.w1[i][j]]],
     b1 |-> [i \in 1..Len(W.b1) |->
               IF i <= ag.hiddenSize
               THEN Descend(W.b1[i], ag.learningRate, g.db1[i]) ELSE W.b1[i]],
     w2 |-> [i \in 1..Len(W.w2) |-> [j \in 1..Len(W.w2[i]) |->
               IF i <= ag.hiddenSize /\ j <= outputSize
               THEN Descend(W.w2[i][j], ag.learningRate, g.dW2[i][j])
               ELSE W.w2[i][j]]],
     b2 |-> [i \in 1..Len(W.b2) |->
               IF i <= outputSize
               THEN Descend(W.b2[i], ag.learningRate, g.db2[i]) ELSE W.b2[i]]]

\* a train() that applies the mean gradient: the step is scaled by 1 / N
trainMeanGradient(ag, W) ==
    [agent  |-> resetMemory(ag),
     params |-> ApplyGradients(
                   [ag EXCEPT !.learningRate =
                                 FDiv(@, Len(ag.episodeRewards) * Scale)],
                   W, Gradients(ag, W))]

\* train(): the agent and its arrays afterwards
train(ag, W) ==
    [agent  |-> resetMemory(ag),
     params |-> ApplyGradients(ag, W, Gradients(ag, W))]

\* getWeights(): an object holding the agent's own four arrays (no copy is
\* made), modelled as a reference to them
getWeights(W) == [kind |-> "ref"]

\* the arrays a getWeights() result denotes
Deref(view, W) == IF view.kind = "ref" THEN W ELSE view.val

----------------------------------------------------------------------------
(* App: the driving loop *)

\* the settings Apply Changes is explored with: hidden width one of 8, 16, 32, 64,
\* learning rate in [0.001, 0.1], discount in [0.90, 0.999]
SettingsChoices ==
    { DefaultConfig,
      [hiddenSize |-> 16, learningRate |-> 100, gamma |-> 900],
      [hiddenSize |-> 8, learningRate |-> 10, gamma |-> 990] }

\* const stepsPerFrame = speedRef.current === 1 ? 1 : (speedRef.current === 2 ? 5 : 20)
StepsPerFrame(speedRef) == IF speedRef = 1 THEN 1 ELSE IF speedRef = 2 THEN 5 ELSE 20

\* the idle value of the activations state for a hidden width
IdleActivations(hiddenSize) ==
    [input |-> <<0, 0, 0, 0>>, hidden |-> zeroVector(hiddenSize),
     output |-> <<One \div 2, One \div 2>>]

\* a metrics entry that takes the episode's own score for the best score
NewEntryLatestAsBest(h, newCount, score) ==
    [episode   |-> newCount,
     score     |-> score,
     bestScore |-> score,
     avgScore  |-> IF Len(h) = 0 THEN score * Scale
                   ELSE FAdd(FMul(h[Len(h)].avgScore, (9 * One) \div 10),
                             FMul(score * Scale, One \div 10))]

\* a metrics entry whose score is read from the trajectory after train()
\* emptied it
NewEntryReadAfterTrain(h, newCount, score) ==
    [episode   |-> newCount,
     score     |-> 0,
     bestScore |-> Max(0, IF Len(h) > 0 THEN h[Len(h)].bestScore ELSE 0),
     avgScore  |-> IF Len(h) = 0 THEN 0
                   ELSE FMul(h[Len(h)].avgScore, (9 * One) \div 10)]

\* the metrics entry the frame callback appends for a finished episode
NewEntry(h, newCount, score) ==
    [episode   |-> newCount,
     score     |-> score,
     bestScore |-> Max(score, IF Len(h) > 0 THEN h[Len(h)].bestScore ELSE 0),
     avgScore  |-> IF Len(h) = 0 THEN score * Scale
                   ELSE FAdd(FMul(h[Len(h)].avgScore, (9 * One) \div 10),
                             FMul(score * Scale, One \div 10))]

\* an effect whose cleanup and pause branch cancel nothing
CancelNothing(a) == a

\* cancelAnimationFrame(reqRef.current), guarded by "if (reqRef.current)"
CancelCurrent(a) ==
    IF a.reqRef # 0
    THEN [a EXCEPT !.pending = SelectSeq(@, LAMBDA cb : ~cb.current)]
    ELSE a

\* reqRef.current = requestAnimationFrame(step), step closed over isRunning
RequestFrame(a, closureRunning) ==
    [a EXCEPT !.reqRef = 1,
              !.pending = Append([k \in 1..Len(@) |-> [@[k] EXCEPT !.current = FALSE]],
                                 [current |-> TRUE, isRunning |-> closureRunning])]

\* the re-render after setIsRunning(v): when isRunning changes, the effect's
\* cleanup runs and then the effect itself
SetIsRunning(a, v) ==
    IF a.isRunning = v THEN a
    ELSE LET cleaned == CancelCurrent(a)
             shown   == [cleaned EXCEPT !.isRunning = v]
         IN  IF v THEN RequestFrame(shown, TRUE) ELSE CancelCurrent(shown)

\* the App's React state and refs at mount
InitApp(e, ag, W) ==
    [isRunning |-> FALSE, speed |-> 1, speedRef |-> 1,
     metricsHistory |-> <<>>, currentStep |-> 0,
     agentSettings |-> DefaultConfig,
     weights |-> getWeights(W),
     activations |-> IdleActivations(16),
     cartPoleState |-> e,
     episodeCount |-> 0, bestScore |-> 0, lastScore |-> 0,
     reqRef |-> 0, pending |-> <<>>]

\* The Math.random() draws the App is explored with.  predict's draws select
\* one action throughout an episode where predict can sample it: left in the
\* first, third, ... episode since the agent was built, right in the others.
LoopActions(probs, episodeCount) ==
    LET wanted == { a \in SampledActions(probs) : a = episodeCount % 2 }
    IN  IF wanted # {} THEN wanted ELSE SampledActions(probs)

\* env.reset() draws by the number of episodes finished since the agent was built
ResetDraw(episodeCount) ==
    IF episodeCount % 2 = 0 THEN State4(-25, -25, -25, -25)
    ELSE State4(24, 24, -25, -25)

\* one pass of the for loop of the frame callback: currActs is what predict
\* computed on st.env, action the action it sampled and r what env.step(action)
\* returned; st holds env, agent, params, app and the frame's locals.  When the
\* episode ends, env is left for env.reset() to draw (see LoopOutcomes).
LoopBody(st, currActs, action, r) ==
    LET stored   == storeStep(st.agent, currActs, action, r.reward)
        score    == Len(stored.episodeRewards)
        trained  == train(stored, st.params)
        newCount == st.app.episodeCount + 1
        calls    == <<[call |-> "predict", state |-> st.env,
                       activations |-> currActs, action |-> action],
                      [call |-> "step", from |-> st.env, action |-> action,
                       nextState |-> r.nextState, reward |-> r.reward,
                       done |-> r.done],
                      [call |-> "storeStep", activations |-> currActs,
                       action |-> action, reward |-> r.reward,
                       n |-> Len(st.agent.episodeRewards)]>>
    IN  IF r.done
        THEN [st EXCEPT
                !.agent = trained.agent,
                !.params = trained.params,
                !.frameState = r.nextState,
                !.frameDone = TRUE,
                !.frameActs = currActs,
                !.trace = calls \o
                          <<[call |-> "train", n |-> score],
                            [call |-> "reset", n |-> Len(trained.agent.episodeRewards)]>>,
                !.app = [@ EXCEPT
                           !.lastScore = score,
                           !.bestScore = Max(@, score),
                           !.episodeCount = newCount,
                           !.metricsHistory =
                               Append(@, NewEntry(@, newCount, score)),
                           !.currentStep = 0]]
        ELSE [st EXCEPT
                !.env = r.nextState,
                !.agent = stored,
                !.frameState = r.nextState,
                !.frameDone = FALSE,
                !.frameActs = currActs,
                !.trace = calls,
                !.app = [@ EXCEPT !.currentStep = @ + 1]]

RECURSIVE LoopOutcomes(_, _, _)
\* for (let i = 0; i < stepsPerFrame; i++) { ... if (done) { ...; env.reset();
\* ...; break } }: every state the loop can end in, from pass i on
LoopOutcomes(st, i, stepsPerFrame) ==
    IF i >= stepsPerFrame \/ st.frameDone THEN {st}
    ELSE LET currActs == Forward(st.agent, st.params, st.env)
         IN  UNION { LET r    == StepResult(st.env, action)
                         body == LoopBody(st, currActs, action, r)
                     IN  IF r.done
                         THEN { [body EXCEPT !.env = ResetDraw(body.app.episodeCount)] }
                         ELSE LoopOutcomes(body, i + 1, stepsPerFrame) :
                     action \in LoopActions(currActs.output, st.app.episodeCount) }

\* the throttled UI updates and the rescheduling at the end of the frame
\* callback; canvasDue and vizDue say whether the throttle intervals have passed
FrameEnd(st, closureRunning, canvasDue, vizDue) ==
    LET a1 == IF st.frameDone \/ canvasDue
              THEN [st.app EXCEPT !.cartPoleState = st.frameState] ELSE st.app
        a2 == IF (st.frameDone \/ vizDue) /\ Len(st.frameActs.input) > 0
              THEN [a1 EXCEPT !.activations = st.frameActs] ELSE a1
        a3 == IF st.frameDone
              THEN [a2 EXCEPT !.weights = getWeights(st.params)] ELSE a2
    IN  IF closureRunning THEN RequestFrame(a3, closureRunning) ELSE a3

----------------------------------------------------------------------------
(* Values before any call *)

NoPrediction ==
    [called |-> FALSE, action |-> 0,
     activations |-> [input |-> <<>>, hidden |-> <<>>, output |-> <<>>]]

NothingHeld == [has |-> FALSE, view |-> [kind |-> "none"]]

\* a call by name; n is the number of buffered steps a train() call found
Op(name) == [name |-> name, n |-> 0]

----------------------------------------------------------------------------
(* The environment on its own: step and reset called on a CartPoleEnv *)

\* env.step calls explored per behaviour
MaxEnvCalls == 2

\* the action arguments step is called with; its parameter type is number
ActionInputs == {0, 1, 2, -1}

\* states an episode can pass through, at and around the termination bounds
ProbeStates ==
    { State4(a, b, c, d) : a \in {-ThresholdX, 0, ThresholdX - 10, ThresholdX},
                           b \in {-500, 0, 500},
                           c \in {-ThresholdTheta, 0, ThresholdTheta - 9, ThresholdTheta},
                           d \in {-500, 0, 500} }

EnvInit ==
    /\ env \in ProbeStates \cup ResetStates
    /\ lastStep = NoStep
    /\ agent = Construct(DefaultConfig, 0).agent
    /\ params = Construct(DefaultConfig, 0).params
    /\ pred = NoPrediction
    /\ held = NothingHeld
    /\ app = InitApp(env, agent, params)
    /\ trace = <<>>
    /\ lastOp = Op("new")
    /\ fuel = 0

\* env.step(action)
EnvStep ==
    /\ fuel < MaxEnvCalls
    /\ \E action \in ActionInputs :
          /\ lastStep' = StepResult(env, action)
          /\ env' = StepResult(env, action).nextState
    /\ lastOp' = Op("step")
    /\ fuel' = fuel + 1
    /\ UNCHANGED <<agent, params, pred, held, app, trace>>

\* env.reset()
EnvReset ==
    /\ env' \in ResetStates
    /\ lastOp' = Op("reset")
    /\ UNCHANGED <<lastStep, agent, params, pred, held, app, trace, fuel>>

EnvNext == EnvStep \/ EnvReset

SpecEnv == EnvInit /\ [][EnvNext]_vars

----------------------------------------------------------------------------
(* The agent on its own: a caller of the PolicyGradientAgent API *)

\* storeStep calls explored per behaviour
MaxStored == 3

\* the configurations the constructor is called with (it accepts any numbers),
\* each with the seed of its Gaussian draws
AgentSetups ==
    { <<[hiddenSize |-> 2, learningRate |-> 100, gamma |-> 900], 0>>,
      <<[hiddenSize |-> 1, learningRate |-> 100, gamma |-> One], 1>>,
      <<[hiddenSize |-> 0, learningRate |-> 10, gamma |-> One + One \div 2], 0>> }

\* the values assigned to agent.learningRate and agent.gamma
LearningRates == {100}

Gammas == {One + One \div 2}

\* the state predict is called with
PredictStates == { State4(24, 24, 24, 24) }

AgentInit ==
    /\ \E setup \in AgentSetups :
          /\ agent = Construct(setup[1], setup[2]).agent
          /\ params = Construct(setup[1], setup[2]).params
    /\ env = State4(0, 0, 0, 0)
    /\ lastStep = NoStep
    /\ pred = NoPrediction
    /\ held = NothingHeld
    /\ app = InitApp(env, agent, params)
    /\ trace = <<>>
    /\ lastOp = Op("new")
    /\ fuel = 0

\* a predict that records the state it was given in the episode memory
CallPredictRecording ==
    /\ \E s \in PredictStates :
          LET acts == Forward(agent, params, s)
          IN  \E action \in SampledActions(acts.output) :
                 /\ pred' = [called |-> TRUE, action |-> action, activations |-> acts]
                 /\ agent' = [agent EXCEPT !.episodeStates = Append(@, acts.input)]
    /\ lastOp' = Op("predict")
    /\ UNCHANGED <<env, lastStep, params, held, app, trace, fuel>>

\* agent.predict(state)
CallPredict ==
    /\ \E s \in PredictStates :
          LET acts == Forward(agent, params, s)
          IN  \E action \in SampledActions(acts.output) :
                 pred' = [called |-> TRUE, action |-> action, activations |-> acts]
    /\ lastOp' = Op("predict")
    /\ UNCHANGED <<env, lastStep, agent, params, held, app, trace, fuel>>

\* agent.storeStep(activations, action, reward) with what predict returned
CallStoreStep ==
    /\ fuel < MaxStored
    /\ pred.called
    /\ agent' = storeStep(agent, pred.activations, pred.action, One)
    /\ lastOp' = Op("storeStep")
    /\ fuel' = fuel + 1
    /\ UNCHANGED <<env, lastStep, params, pred, held, app, trace>>

\* agent.train()
CallTrain ==
    /\ LET r == train(agent, params)
       IN  agent' = r.agent /\ params' = r.params
    /\ lastOp' = [Op("train") EXCEPT !.n = Len(agent.episodeRewards)]
    /\ UNCHANGED <<env, lastStep, pred, held, app, trace, fuel>>

\* const view = agent.getWeights()
CallGetWeights ==
    /\ held' = [has |-> TRUE, view |-> getWeights(params)]
    /\ lastOp' = Op("getWeights")
    /\ UNCHANGED <<env, lastStep, agent, params, pred, app, trace, fuel>>

\* view.b2[0] = v, by the holder of a getWeights() result
CallerWrite ==
    /\ held.has
    /\ \E v \in {5 * One} :
          IF held.view.kind = "ref"
          THEN /\ params' = [params EXCEPT !.b2[1] = v]
               /\ held' = held
          ELSE /\ held' = [held EXCEPT !.view.val.b2[1] = v]
               /\ params' = params
    /\ lastOp' = Op("write")
    /\ UNCHANGED <<env, lastStep, agent, pred, app, trace, fuel>>

\* agent.learningRate = v
SetLearningRate ==
    /\ \E v \in LearningRates : agent' = [agent EXCEPT !.learningRate = v]
    /\ lastOp' = Op("setLearningRate")
    /\ UNCHANGED <<env, lastStep, params, pred, held, app, trace, fuel>>

\* agent.gamma = v
SetGamma ==
    /\ \E v \in Gammas : agent' = [agent EXCEPT !.gamma = v]
    /\ lastOp' = Op("setGamma")
    /\ UNCHANGED <<env, lastStep, params, pred, held, app, trace, fuel>>

AgentNext ==
    \/ CallPredict
    \/ CallStoreStep
    \/ CallTrain
    \/ CallGetWeights
    \/ SetLearningRate
    \/ SetGamma

SpecAgent == AgentInit /\ [][AgentNext]_vars

\* a caller that keeps the object getWeights() gave it and writes into it
ViewNext ==
    \/ CallPredict
    \/ CallStoreStep
    \/ CallTrain
    \/ CallGetWeights
    \/ CallerWrite

SpecView == AgentInit /\ [][ViewNext]_vars

----------------------------------------------------------------------------
(* The App *)

\* episodes explored between two resets of the agent
MaxEpisodes == 2

Init ==
    /\ env = ResetDraw(0)
    /\ \E seed \in Seeds :
          /\ agent = Construct(DefaultConfig, seed).agent
          /\ params = Construct(DefaultConfig, seed).params
    /\ app = InitApp(env, agent, params)
    /\ lastStep = NoStep
    /\ pred = NoPrediction
    /\ held = NothingHeld
    /\ trace = <<>>
    /\ lastOp = Op("new")
    /\ fuel = 0

\* the animation-frame callback: App.step.  performance.now() is explored with a
\* frame that comes within both throttle intervals of the last UI update (late
\* is FALSE) and one that comes after both have passed (late is TRUE)
Frame ==
    /\ app.pending # <<>>
    /\ app.episodeCount < MaxEpisodes
    /\ LET cb    == Head(app.pending)
           start == [env |-> env, agent |-> agent, params |-> params,
                     app |-> [app EXCEPT !.pending = Tail(@)],
                     trace |-> <<>>, frameState |-> env, frameDone |-> FALSE,
                     frameActs |-> [input |-> <<>>, hidden |-> <<>>, output |-> <<>>]]
       IN  \E st \in LoopOutcomes(start, 0, StepsPerFrame(app.speedRef)) :
           \E late \in BOOLEAN :
              /\ env' = st.env
              /\ agent' = st.agent
              /\ params' = st.params
              /\ trace' = st.trace
              /\ app' = FrameEnd(st, cb.isRunning, late, late)
    /\ UNCHANGED <<lastStep, pred, held, lastOp, fuel>>

\* the Train / Pause button: setIsRunning(!isRunning)
ToggleRun ==
    /\ app' = SetIsRunning(app, ~app.isRunning)
    /\ UNCHANGED <<env, lastStep, agent, params, pred, held, trace, lastOp, fuel>>

\* toggleSpeed
ToggleSpeed ==
    /\ LET nextSpeed == IF app.speed = 1 THEN 2 ELSE IF app.speed = 2 THEN 3 ELSE 1
       IN  app' = [app EXCEPT !.speed = nextSpeed, !.speedRef = nextSpeed]
    /\ UNCHANGED <<env, lastStep, agent, params, pred, held, trace, lastOp, fuel>>

\* a rebuild that leaves the step counter as it was
RebuildKeepingStep(a, config, built, e) ==
    [SetIsRunning(a, FALSE) EXCEPT
        !.weights = getWeights(built.params),
        !.activations = IdleActivations(config.hiddenSize),
        !.metricsHistory = <<>>,
        !.episodeCount = 0, !.bestScore = 0, !.lastScore = 0,
        !.cartPoleState = e]

\* what handleReset and a width change share: the new agent is installed, the
\* environment reset, and the visualizer and stats state cleared
Rebuild(a, config, built, e) ==
    [SetIsRunning(a, FALSE) EXCEPT
        !.weights = getWeights(built.params),
        !.activations = IdleActivations(config.hiddenSize),
        !.metricsHistory = <<>>,
        !.episodeCount = 0, !.bestScore = 0, !.lastScore = 0,
        !.currentStep = 0,
        !.cartPoleState = e]

\* handleReset; of its two env.reset() calls the second overwrites the first
HandleReset ==
    /\ \E seed \in Seeds, e \in {ResetDraw(0)} :
          LET built == Construct(app.agentSettings, seed)
          IN  IF built.threw
              THEN /\ app' = SetIsRunning(app, FALSE)
                   /\ trace' = <<[call |-> "new", threw |-> TRUE]>>
                   /\ UNCHANGED <<env, agent, params>>
              ELSE /\ agent' = built.agent
                   /\ params' = built.params
                   /\ env' = e
                   /\ app' = Rebuild(app, app.agentSettings, built, e)
                   /\ trace' = <<[call |-> "new", threw |-> FALSE],
                                 [call |-> "reset", n |-> Len(built.agent.episodeRewards)],
                                 [call |-> "reset", n |-> Len(built.agent.episodeRewards)]>>
    /\ UNCHANGED <<lastStep, pred, held, lastOp, fuel>>

\* a settings update that also starts the episode memory afresh
HotSwapClearingMemory(ag, newSettings) ==
    resetMemory([ag EXCEPT !.learningRate = newSettings.learningRate,
                           !.gamma = newSettings.gamma])

\* agentRef.current.learningRate = newSettings.learningRate;
\* agentRef.current.gamma = newSettings.gamma
HotSwap(ag, newSettings) ==
    [ag EXCEPT !.learningRate = newSettings.learningRate,
               !.gamma = newSettings.gamma]

\* handleSettingsChange(newSettings), called by the settings panel's Apply
HandleSettingsChange ==
    /\ \E newSettings \in SettingsChoices, seed \in Seeds, e \in {ResetDraw(0)} :
          LET oldSettings == app.agentSettings
              applied     == [app EXCEPT !.agentSettings = newSettings]
              built       == Construct(newSettings, seed)
          IN  IF newSettings.hiddenSize # oldSettings.hiddenSize
              THEN IF built.threw
                   THEN /\ app' = SetIsRunning(applied, FALSE)
                        /\ trace' = <<[call |-> "new", threw |-> TRUE]>>
                        /\ UNCHANGED <<env, agent, params>>
                   ELSE /\ agent' = built.agent
                        /\ params' = built.params
                        /\ env' = e
                        /\ app' = Rebuild(applied, newSettings, built, e)
                        /\ trace' = <<[call |-> "new", threw |-> FALSE],
                                      [call |-> "reset",
                                       n |-> Len(built.agent.episodeRewards)]>>
              ELSE /\ agent' = HotSwap(agent, newSettings)
                   /\ app' = applied
                   /\ trace' = <<[call |-> "set",
                                  learningRate |-> newSettings.learningRate,
                                  gamma |-> newSettings.gamma]>>
                   /\ UNCHANGED <<env, params>>
    /\ UNCHANGED <<lastStep, pred, held, lastOp, fuel>>

Next ==
    \/ Frame
    \/ ToggleRun
    \/ ToggleSpeed
    \/ HandleReset
    \/ HandleSettingsChange

Spec == Init /\ [][Next]_vars

----------------------------------------------------------------------------
(* Properties of the agent on its own (SpecAgent, SpecView) *)

BufferLengths ==
    { Len(agent.episodeStates), Len(agent.episodeHiddens), Len(agent.episodeProbs),
      Len(agent.episodeActions), Len(agent.episodeRewards) }

\* C1: after any sequence of predict, storeStep and train calls the five episode
\* sequences have one common length, and right after a train() call that length
\* is 0.
C1_BufferSequencesAgree ==
    /\ Cardinality(BufferLengths) = 1
    /\ lastOp.name = "train" => BufferLengths = {0}

\* C1 witness: train() has just run on a buffer of MaxStored steps.
C1_TrainedOnFullBuffer ==
    /\ lastOp.name = "train"
    /\ lastOp.n = MaxStored
    /\ agent.episodeRewards = <<>>

\* C2: a write through the object getWeights() returned leaves the agent's own
\* arrays unchanged, and train() leaves the arrays the caller holds unchanged.
C2_WeightsViewIsolated ==
    [][ /\ CallerWrite => params' = params
        /\ (CallTrain /\ held.has) =>
              Deref(held.view, params') = Deref(held.view, params) ]_vars

AllElements(W) ==
    UNION { { W.w1[i][j] : j \in 1..Len(W.w1[i]) } : i \in 1..Len(W.w1) }
      \cup UNION { { W.w2[i][j] : j \in 1..Len(W.w2[i]) } : i \in 1..Len(W.w2) }
      \cup { W.b1[i] : i \in 1..Len(W.b1) }
      \cup { W.b2[i] : i \in 1..Len(W.b2) }

\* C3: train() on an empty episode buffer changes no element of w1, b1, w2, b2,
\* makes none of them NaN, and leaves the buffer empty.
C3_TrainOnEmptyBufferIsNoOp ==
    [][ (CallTrain /\ BufferLengths = {0}) =>
           /\ params' = params
           /\ NaN \notin AllElements(params')
           /\ BufferLengths' = {0} ]_vars

\* C3 witness: train() has just run on an empty buffer of an agent with weights.
C3_TrainedOnEmptyBuffer ==
    /\ lastOp.name = "train"
    /\ lastOp.n = 0
    /\ agent.hiddenSize > 0
    /\ AllElements(params) # {0}

\* C5: no agent holds a hidden width that is not a positive integer or a
\* discount factor outside (0, 1], after construction and after any update of
\* learningRate or gamma.
C5_ConfigAlwaysValid ==
    /\ agent.hiddenSize >= 1
    /\ agent.gamma > 0
    /\ agent.gamma <= One

\* C9: predict, storeStep, getWeights and assignments to learningRate or gamma
\* leave w1, b1, w2 and b2 unchanged, and predict leaves the episode buffer
\* unchanged.
C9_OnlyTrainWritesParams ==
    [][ /\ (CallPredict \/ CallStoreStep \/ CallGetWeights
              \/ SetLearningRate \/ SetGamma) => params' = params
        /\ CallPredict =>
              /\ agent'.episodeStates = agent.episodeStates
              /\ agent'.episodeHiddens = agent.episodeHiddens
              /\ agent'.episodeProbs = agent.episodeProbs
              /\ agent'.episodeActions = agent.episodeActions
              /\ agent'.episodeRewards = agent.episodeRewards ]_vars

\* C9 witness: predict has just run on an agent holding buffered steps.
C9_PredictedWithBufferedSteps ==
    /\ lastOp.name = "predict"
    /\ pred.called
    /\ Len(agent.episodeStates) = MaxStored
    /\ agent.hiddenSize > 0

----------------------------------------------------------------------------
(* Properties of the environment on its own (SpecEnv) *)

\* C4: step called with an action other than 0 and 1 reports an error and
\* leaves the state as it was.
C4_InvalidActionRejected ==
    (lastStep.called /\ lastStep.action \notin {0, 1}) =>
        /\ lastStep.threw
        /\ lastStep.nextState = lastStep.from

\* C7: the done flag of step is true exactly when the post-step x is strictly
\* beyond -2.4 or 2.4, or the post-step theta is strictly beyond -12 or 12
\* degrees; a post-step state inside or on those bounds reports false.
C7_DoneIffStrictlyBeyondBounds ==
    lastStep.called =>
        LET n == lastStep.nextState
        IN  /\ n = NextState(lastStep.from, lastStep.action)
            /\ lastStep.done =
                 (n.x < -2400 \/ n.x > 2400 \/ n.theta < -209 \/ n.theta > 209)
            /\ (n.x \in -2400..2400 /\ n.theta \in -209..209) => ~lastStep.done

\* C7 witness: a step that ends exactly on the x bound with theta in range, and
\* is not done.
C7_LandsOnBound ==
    /\ lastStep.called
    /\ lastStep.nextState.x = ThresholdX
    /\ lastStep.nextState.theta \in -ThresholdTheta..ThresholdTheta
    /\ ~lastStep.done

----------------------------------------------------------------------------
(* Properties of the App's driving loop (Spec) *)

\* the last handler to use the environment and the agent was a frame callback
AfterLoopPass == trace # <<>> /\ trace[1].call = "predict"

\* C6: every pass of the loop is predict on the current environment state, then
\* step with the predicted action, then storeStep with that prediction's
\* activations and action and the step's reward; train runs exactly when the
\* step reported done and is followed by the reset; no step starts from a
\* terminal state, the environment is never left in one, and every reset finds
\* the episode buffer empty.
C6_LoopOrder ==
    /\ ~Done(env)
    /\ \A k \in 1..Len(trace) : trace[k].call = "reset" => trace[k].n = 0
    /\ AfterLoopPass =>
          /\ Len(trace) >= 3
          /\ trace[2].call = "step"
          /\ trace[3].call = "storeStep"
          /\ trace[2].from = trace[1].state
          /\ ~Done(trace[2].from)
          /\ trace[2].action = trace[1].action
          /\ trace[3].activations = trace[1].activations
          /\ trace[3].action = trace[1].action
          /\ trace[3].reward = trace[2].reward
          /\ IF trace[2].done
             THEN /\ Len(trace) = 5
                  /\ trace[4].call = "train"
                  /\ trace[4].n = trace[3].n + 1
                  /\ trace[5].call = "reset"
                  /\ agent.episodeRewards = <<>>
             ELSE /\ Len(trace) = 3
                  /\ env = trace[2].nextState
                  /\ Len(agent.episodeRewards) = trace[3].n + 1

\* C6 witness: the first step of the second episode, taken from the state the
\* reset after the first episode's train() drew.
C6_SteppedAfterReset ==
    /\ AfterLoopPass
    /\ Len(trace) = 3
    /\ app.episodeCount = 1
    /\ trace[2].from = ResetDraw(1)
    /\ Len(agent.episodeRewards) = 1

\* C8: every step returns reward 1, whichever the action and whether or not it
\* ends the episode, and every entry of episodeRewards is 1.
C8_RewardAlwaysOne ==
    /\ \A k \in 1..Len(trace) : trace[k].call = "step" => trace[k].reward = One
    /\ \A k \in 1..Len(agent.episodeRewards) : agent.episodeRewards[k] = One

\* C8 witness: a step pushing right has just ended an episode, after an episode
\* of steps pushing left.
C8_TerminalStepTaken ==
    /\ AfterLoopPass
    /\ trace[2].done
    /\ trace[2].action = 1
    /\ app.episodeCount = 2

\* C10: a settings change that keeps the hidden width assigns the new
\* learningRate and gamma to the existing agent and changes nothing else: the
\* weights, the buffered trajectory, the environment state, the metrics
\* history, the running flag and the pending frame stay as they were.
C10_SameWidthOnlyHotSwaps ==
    [][ (HandleSettingsChange
           /\ app'.agentSettings.hiddenSize = app.agentSettings.hiddenSize) =>
          /\ agent' = [agent EXCEPT
                         !.learningRate = app'.agentSettings.learningRate,
                         !.gamma = app'.agentSettings.gamma]
          /\ params' = params
          /\ env' = env
          /\ app' = [app EXCEPT !.agentSettings = app'.agentSettings] ]_vars

\* C10 witness: new learningRate and gamma were applied to the default agent
\* while it ran, in the middle of an episode after a finished one.
C10_HotSwappedMidEpisode ==
    /\ trace # <<>>
    /\ trace[1].call = "set"
    /\ agent.hiddenSize = DefaultConfig.hiddenSize
    /\ agent.learningRate # DefaultConfig.learningRate
    /\ agent.gamma # DefaultConfig.gamma
    /\ Len(agent.episodeRewards) > 0
    /\ app.metricsHistory # <<>>
    /\ app.isRunning

\* the agent's arrays have the shape its hiddenSize asks for: w1 is 4 x H, b1 has
\* length H, w2 is H x 2 and b2 has length 2
ShapedFor(W, H) ==
    /\ Len(W.w1) = inputSize
    /\ \A i \in 1..Len(W.w1) : Len(W.w1[i]) = H
    /\ Len(W.b1) = H
    /\ Len(W.w2) = H
    /\ \A h \in 1..Len(W.w2) : Len(W.w2[h]) = outputSize
    /\ Len(W.b2) = outputSize

\* C11: the agent's arrays always have the shape of its hiddenSize, which is the
\* hidden width of the applied settings; a settings change to another width
\* installs a newly constructed agent with an empty buffer, resets the
\* environment, clears the metrics and stops the loop.
C11_WidthFixedAtConstruction ==
    /\ [](ShapedFor(params, agent.hiddenSize)
            /\ agent.hiddenSize = app.agentSettings.hiddenSize)
    /\ [][ (HandleSettingsChange
              /\ app'.agentSettings.hiddenSize # app.agentSettings.hiddenSize) =>
             /\ \E seed \in Seeds :
                   /\ agent' = Construct(app'.agentSettings, seed).agent
                   /\ params' = Construct(app'.agentSettings, seed).params
             /\ BufferLengths' = {0}
             /\ env' \in ResetStates
             /\ app'.metricsHistory = <<>>
             /\ app'.episodeCount = 0
             /\ ~app'.isRunning
             /\ app'.pending = <<>> ]_vars

\* C11 witness: a width change has installed an agent of width 8; the loop it
\* stopped was started again and the new agent has buffered a step.
C11_RunningAfterWidthChange ==
    /\ agent.hiddenSize = 8
    /\ Len(params.b1) = 8
    /\ Len(agent.episodeRewards) > 0
    /\ app.isRunning

----------------------------------------------------------------------------
(* Properties of train() (SpecAgent) *)

RECURSIVE Power(_, _)
\* gamma^k
Power(gamma, k) == IF k = 0 THEN One ELSE FMul(Power(gamma, k - 1), gamma)

\* the sum of gamma^k for k = 0 .. n
GeometricSum(gamma, n) == SumSeq([k \in 1..(n + 1) |-> Power(gamma, k - 1)])

\* C12: for a buffered trajectory of N >= 1 steps train computes the returns
\* G[N-1] = r[N-1] and G[t] = r[t] + gamma * G[t+1]; the rewards being 1, G[t]
\* is the sum of gamma^k for k = 0 .. N-1-t (up to one unit of rounding per term).
C12_ReturnsAreDiscountedSums ==
    [][ (CallTrain /\ agent.episodeRewards # <<>>) =>
          LET r == agent.episodeRewards
              N == Len(r)
              G == Returns(r, agent.gamma)
          IN  /\ Len(G) = N
              /\ G[N] = r[N]
              /\ \A t \in 1..(N - 1) : G[t] = FAdd(r[t], FMul(agent.gamma, G[t + 1]))
              /\ \A t \in 1..N :
                    LET sum == GeometricSum(agent.gamma, N - t)
                    IN  G[t] - sum \in -N..N ]_vars

\* C12 witness: train() has just run on MaxStored buffered steps with a discount
\* factor below 1.
C12_TrainedWithDiscount ==
    /\ lastOp.name = "train"
    /\ lastOp.n = MaxStored
    /\ agent.gamma = 900
    /\ agent.hiddenSize = 2

\* every element of the gradients train() accumulates
GradientElements(g) ==
    UNION { { g.dW1[i][h] : h \in 1..Len(params.w1[i]) } : i \in 1..Len(params.w1) }
      \cup UNION { { g.dW2[h][o] : o \in 1..Len(params.w2[h]) } : h \in 1..Len(params.w2) }
      \cup { g.db1[h] : h \in 1..Len(params.b1) }
      \cup { g.db2[o] : o \in 1..Len(params.b2) }

\* C13: when all buffered steps have the same discounted return (as in a
\* one-step episode) the standard deviation 0 is replaced by 1, every normalized
\* advantage is 0 and none is NaN, every accumulated gradient is 0, and train()
\* leaves w1, b1, w2, b2 as they were and clears the buffer.
C13_ZeroVarianceIsHarmless ==
    [][ LET G == Returns(agent.episodeRewards, agent.gamma)
        IN  (CallTrain /\ G # <<>> /\ \A t \in 1..Len(G) : G[t] = G[1]) =>
               /\ Std(G) = One
               /\ \A t \in 1..Len(G) : NormReturns(G)[t] = 0
               /\ GradientElements(Gradients(agent, params)) \subseteq {0}
               /\ params' = params
               /\ NaN \notin AllElements(params')
               /\ BufferLengths' = {0} ]_vars

\* C13 witness: train() has just run on a one-step episode of an agent with
\* weights.
C13_TrainedOnOneStep ==
    /\ lastOp.name = "train"
    /\ lastOp.n = 1
    /\ agent.hiddenSize > 0
    /\ AllElements(params) # {0}
    /\ BufferLengths = {0}

\* C14 is not stated here: that two environments in one state agree step by
\* step compares StepResult with itself.

\* what buffered step t alone contributes to the change of b2[o]:
\* -learningRate * (p[t][o] - onehot(a[t])[o]) * adv[t]
Contribution(ag, adv, t, o) ==
    -FMul(ag.learningRate,
          FMul(DLogits(ag.episodeProbs[t], ag.episodeActions[t])[o], adv[t]))

\* C15: at train(), a buffered step with positive advantage contributes a rise
\* of the output bias of the action taken and a fall of the other action's, a
\* step with negative advantage the reverse (strictly so for advantages of 0.5
\* and more, below that up to rounding); and the net change of b2[o] is
\* -learningRate * sum over t of (p[t][o] - onehot(a[t])[o]) * adv[t].
C15_UpdateFollowsAdvantage ==
    [][ (CallTrain /\ agent.episodeRewards # <<>>) =>
          LET N   == Len(agent.episodeRewards)
              adv == NormReturns(Returns(agent.episodeRewards, agent.gamma))
              a(t)     == agent.episodeActions[t] + 1
              other(t) == 2 - agent.episodeActions[t]
          IN  /\ \A t \in 1..N :
                    /\ adv[t] > 0 => /\ Contribution(agent, adv, t, a(t)) >= 0
                                     /\ Contribution(agent, adv, t, other(t)) <= 0
                    /\ adv[t] < 0 => /\ Contribution(agent, adv, t, a(t)) <= 0
                                     /\ Contribution(agent, adv, t, other(t)) >= 0
                    /\ adv[t] >= One \div 2 =>
                          /\ Contribution(agent, adv, t, a(t)) > 0
                          /\ Contribution(agent, adv, t, other(t)) < 0
                    /\ adv[t] <= -(One \div 2) =>
                          /\ Contribution(agent, adv, t, a(t)) < 0
                          /\ Contribution(agent, adv, t, other(t)) > 0
              /\ \A o \in 1..outputSize :
                    params'.b2[o] - params.b2[o] =
                       -FMul(agent.learningRate,
                             SumSeq([t \in 1..N |->
                                FMul(FSub(agent.episodeProbs[t][o],
                                          IF agent.episodeActions[t] = o - 1
                                          THEN One ELSE 0),
                                     adv[t])])) ]_vars

\* C15 witness: train() has just run on several buffered steps and moved the
\* output biases apart.
C15_BiasesMoved ==
    /\ lastOp.name = "train"
    /\ lastOp.n >= 2
    /\ params.b2[1] # 0
    /\ params.b2[2] = -params.b2[1]

----------------------------------------------------------------------------
(* Properties of the episode statistics (Spec) *)

\* the last loop pass of the last frame callback ended an episode
EpisodeJustEnded == AfterLoopPass /\ trace[2].done

\* C16: the score recorded for an episode is the number of environment steps of
\* the episode, the terminal one included: one more than the steps buffered
\* before the terminal step was stored, so at least 1; it is what train() found
\* in the buffer, which train() then left empty.
C16_ScoreCountsTerminalStep ==
    /\ EpisodeJustEnded =>
          /\ Len(trace) = 5
          /\ trace[3].call = "storeStep"
          /\ trace[4].call = "train"
          /\ trace[4].n = trace[3].n + 1
          /\ trace[5].n = 0
          /\ app.lastScore = trace[4].n
          /\ app.metricsHistory # <<>>
          /\ app.metricsHistory[Len(app.metricsHistory)].score = trace[4].n
    /\ \A k \in 1..Len(app.metricsHistory) : app.metricsHistory[k].score >= 1

\* C16 witness: a second episode of several steps has just been recorded.
C16_SecondEpisodeRecorded ==
    /\ EpisodeJustEnded
    /\ Len(app.metricsHistory) = 2
    /\ app.lastScore > 1
    /\ Len(agent.episodeRewards) = 0

\* the largest score among the first k metrics entries
BestUpTo(h, k) ==
    CHOOSE m \in { h[j].score : j \in 1..k } : \A j \in 1..k : h[j].score <= m

\* C17: bestScore is a running maximum: the bestScore of every metrics entry is
\* the largest score of the episodes recorded since the last reset up to that
\* entry, it never decreases along the history, and the bestScore of the stats
\* card is that of the last entry, or 0 when the history is empty.
C17_BestScoreIsRunningMaximum ==
    LET h == app.metricsHistory
    IN  /\ \A k \in 1..Len(h) : h[k].bestScore = BestUpTo(h, k)
        /\ \A k \in 1..(Len(h) - 1) : h[k].bestScore <= h[k + 1].bestScore
        /\ app.bestScore = IF h = <<>> THEN 0 ELSE h[Len(h)].bestScore

\* C17 witness: the episode recorded last scored less than the best before it.
C17_LaterEpisodeScoredLess ==
    /\ Len(app.metricsHistory) >= 2
    /\ app.metricsHistory[Len(app.metricsHistory)].score < app.bestScore

----------------------------------------------------------------------------
(* Properties of what the frame callback hands to the views (Spec) *)

\* C18: after a frame in which an episode ended, the loop made no pass after
\* the terminal one and the state given to the canvas is the state env.reset()
\* drew for the new episode, not the terminal state of the finished one.
C18_CanvasShowsResetState ==
    EpisodeJustEnded =>
        /\ trace[Len(trace)].call = "reset"
        /\ app.cartPoleState = env
        /\ app.cartPoleState # trace[2].nextState

\* C19: in every state the driver can reach by frames at any speed, pausing and
\* resuming, settings changes with and without a width change, and resets, the
\* step counter shown (currentStep) is the length of the current agent's
\* episode buffer.
C19_StepCounterIsBufferLength ==
    /\ app.currentStep = Len(agent.episodeRewards)
    /\ BufferLengths = {app.currentStep}

\* C19 witness: the learning rate and discount were changed in the middle of
\* the second episode, with steps buffered and counted.
C19_CountingAcrossSettingsChange ==
    /\ trace # <<>>
    /\ trace[1].call = "set"
    /\ app.episodeCount = 1
    /\ app.currentStep > 1

\* NetworkVisualizer: { name: 'Hidden', size: 16, acts: activations.hidden }
HiddenLayerSize == 16

\* the sizes of the three layers the visualizer lays out
LayerSizes == <<inputSize, HiddenLayerSize, outputSize>>

\* nodes: Array.from({ length: l.size }).map((_, nIdx) => ({ ..., val:
\* l.acts[nIdx] || 0 })): the values of the nodes drawn for a layer
LayerNodes(size, acts) ==
    [nIdx \in 1..size |-> IF nIdx <= Len(acts) THEN acts[nIdx] ELSE 0]

\* the index pairs <<i, j>> of the reads weights.w1[i][j]: one for every input
\* node i and hidden node j drawn
W1Reads == (1..LayerSizes[1]) \X (1..LayerSizes[2])

\* the index pairs <<i, j>> of the reads weights.w2[i][j]: one for every hidden
\* node i and output node j drawn
W2Reads == (1..LayerSizes[2]) \X (1..LayerSizes[3])

\* m[i][j] is an element of the matrix m
InBounds(m, ij) == ij[1] \in 1..Len(m) /\ ij[2] \in 1..Len(m[ij[1]])

\* C20: whatever hidden width the agent in use was built with, the visualizer
\* draws as many hidden nodes as the agent has hidden units, and every pair of
\* indices it reads w1 and w2 at lies inside the agent's 4 x H and H x 2
\* matrices.
C20_VisualizerReadsInBounds ==
    LET W == Deref(app.weights, params)
    IN  /\ Len(LayerNodes(LayerSizes[2], app.activations.hidden)) = agent.hiddenSize
        /\ \A ij \in W1Reads : InBounds(W.w1, ij)
        /\ \A ij \in W2Reads : InBounds(W.w2, ij)

----------------------------------------------------------------------------
(* Properties of the animation-frame scheduling (Spec) *)

\* C21: at most one animation-frame callback is pending at any time, and it is
\* the one reqRef holds, requested by a running loop; while the loop is paused
\* (by the Pause button, a reset or a width change) none is pending, and the
\* environment, the agent's episode memory and its weights do not change
\* except by a rebuild, which installs an agent with empty memory and resets
\* the environment: no step, storeStep or train happens until the loop is
\* started again.
C21_OneFramePendingNoneWhilePaused ==
    /\ [](/\ Len(app.pending) <= 1
          /\ \A k \in 1..Len(app.pending) :
                app.pending[k].current /\ app.pending[k].isRunning
          /\ ~app.isRunning => app.pending = <<>>
          /\ app.isRunning => app.pending # <<>>)
    /\ [][ (~app.isRunning /\ <<env, agent, params>>' # <<env, agent, params>>) =>
              \/ /\ trace' # <<>>
                 /\ trace'[1].call = "new"
                 /\ BufferLengths' = {0}
                 /\ env' \in ResetStates
                 /\ ~app'.isRunning
              \/ /\ trace' # <<>>
                 /\ trace'[1].call = "set"
                 /\ <<env, params>>' = <<env, params>>
                 /\ BufferLengths' = BufferLengths ]_vars

\* C21 witness: the loop was paused in the middle of an episode: steps are
\* buffered, a frame had been requested, and none is pending.
C21_PausedMidEpisode ==
    /\ ~app.isRunning
    /\ app.reqRef # 0
    /\ app.pending = <<>>
    /\ Len(agent.episodeRewards) > 0

====
